---- MODULE Spec2Model ----
(***************************************************************************)
(* Model of the ustar accessor of src/skeleton/soumission/lib_tar.c.       *)
(*                                                                         *)
(* The archive is a file of bytes; the descriptor is one file offset that  *)
(* every operation moves with read() and lseek().  Each operation is one   *)
(* action: it runs the function from the offset the previous call left     *)
(* behind, and records its arguments, its outputs and the offset it        *)
(* started from.                                                           *)
(***************************************************************************)
EXTENDS Integers, Sequences, FiniteSets, TLC

VARIABLES ar, pos, last

vars == <<ar, pos, last>>

(* ---------------------------------------------------------------------- *)
(* Bounds of the model                                                     *)
(* ---------------------------------------------------------------------- *)

\* largest capacity (*no_entries) a caller passes to list
MaxCap == 4
\* largest dest size (*len) a caller passes to read_file
MaxLen == 2
\* largest offset a caller passes to read_file
MaxOffset == 2
\* the iterations of a scan that are followed one by one
MaxIters == 6

(* ---------------------------------------------------------------------- *)
(* lib_tar.h: layout of tar_header_t and the constants                     *)
(* ---------------------------------------------------------------------- *)

HeaderSize == 512
OffName == 0
OffSize == 124
OffChksum == 148
OffTypeflag == 156
OffLinkname == 157
OffMagic == 257
OffVersion == 263
OffPrefix == 345

NUL == 0
SP == 32
SLASH == 47
ZERO == 48

\* "ustar" as compared by strncmp(header.magic, TMAGIC, TMAGLEN): the five
\* letters and the terminating null of the literal
TMAGIC == <<117, 115, 116, 97, 114>>
TMAGLEN == 6
TVERSION == <<48, 48>>
TVERSLEN == 2

REGTYPE == 48
AREGTYPE == 0
SYMTYPE == 50
DIRTYPE == 53

(* ---------------------------------------------------------------------- *)
(* The archive file: blocks of 512 bytes written as segments               *)
(* ---------------------------------------------------------------------- *)

RECURSIVE SumSeq(_)
SumSeq(s) == IF s = <<>> THEN 0 ELSE Head(s) + SumSeq(Tail(s))

RECURSIVE OctalDigits(_, _)
\* n printed as exactly w octal digits (as tar writes a numeric field)
OctalDigits(n, w) ==
  IF w = 0 THEN <<>> ELSE Append(OctalDigits(n \div 8, w - 1), ZERO + (n % 8))

Seg(off, bytes) == [off |-> off, bytes |-> bytes]

\* the header fields other than the checksum
HeaderFields(name, size, typeflag, linkname, magic, version) ==
  << Seg(OffName, name),
     Seg(100, OctalDigits(420, 7)),
     Seg(OffSize, OctalDigits(size, 11)),
     Seg(OffTypeflag, <<typeflag>>),
     Seg(OffLinkname, linkname),
     Seg(OffMagic, magic),
     Seg(OffVersion, version) >>

RECURSIVE SegSum(_)
SegSum(segs) ==
  IF segs = <<>> THEN 0 ELSE SumSeq(Head(segs).bytes) + SegSum(Tail(segs))

\* a header block whose checksum field holds the sum of its bytes plus delta
\* (delta = 0: the checksum matches), written as six octal digits, NUL, space
HeaderBlock(name, size, typeflag, linkname, magic, version, delta) ==
  LET f == HeaderFields(name, size, typeflag, linkname, magic, version)
  IN  Append(f, Seg(OffChksum,
                    OctalDigits(SegSum(f) + 8 * SP + delta, 6) \o <<NUL, SP>>))

Ustar == TMAGIC \o <<NUL>>

File(name, size) == HeaderBlock(name, size, REGTYPE, <<>>, Ustar, TVERSION, 0)
\* a regular file stored with the typeflag of the old format
OldFile(name, size) == HeaderBlock(name, size, AREGTYPE, <<>>, Ustar, TVERSION, 0)
Dir(name) == HeaderBlock(name, 0, DIRTYPE, <<>>, Ustar, TVERSION, 0)
Sym(name, target) == HeaderBlock(name, 0, SYMTYPE, target, Ustar, TVERSION, 0)
Data(bytes) == << Seg(0, bytes) >>
ZeroBlock == << >>

BlockByte(b, i) ==
  LET hit == {k \in 1..Len(b) : b[k].off <= i /\ i < b[k].off + Len(b[k].bytes)}
  IN  IF hit = {} THEN NUL
      ELSE LET k == CHOOSE k \in hit : TRUE IN b[k].bytes[i - b[k].off + 1]

(* ---------------------------------------------------------------------- *)
(* The archives the descriptor may be opened on                            *)
(* ---------------------------------------------------------------------- *)

\* the names stored in the archives, as character codes
\* "d/", "d/a", "d/b", "d/c/", "d/c/d", "d/e/"
nD == <<100, 47>>
nDA == <<100, 47, 97>>
nDB == <<100, 47, 98>>
nDC == <<100, 47, 99, 47>>
nDCD == <<100, 47, 99, 47, 100>>
nDE == <<100, 47, 101, 47>>
\* "a", "b", "c", "f", "s", and "x", which no archive holds
nA == <<97>>
nB == <<98>>
nC == <<99>>
nF == <<102>>
nS == <<115>>
nX == <<120>>
\* "e" and "ex": a directory stored without a trailing slash, and a file
\* whose name starts with the same letter; "e/a" under it
nE == <<101>>
nEX == <<101, 120>>
nEA == <<101, 47, 97>>

\* the content of the files of two bytes
Content == <<120, 97>>

Terminator == <<ZeroBlock, ZeroBlock>>

\* the tree of the documentation of list: d/ with a, b, c/ (holding d) and e/
TreeArchive ==
  << Dir(nD), File(nDA, 2), Data(Content), File(nDB, 0), Dir(nDC),
     File(nDCD, 1), Data(<<98>>), Dir(nDE) >> \o Terminator

\* a header with one or several of magic, version and checksum corrupted
Corrupt(name, magic, version, delta) ==
  HeaderBlock(name, 0, REGTYPE, <<>>, magic, version, delta)

\* "ustax\0", and "ustar\0" with a NUL in place of its first letter
BadMagics == << <<117, 115, 116, 97, 120, NUL>>, <<NUL, 115, 116, 97, 114, NUL>> >>
BadVersion == <<48, 49>>

Archives ==
  << \* no entry at all
     Terminator,
     << ZeroBlock >>,
     << >>,
     \* regular files, with and without terminator
     << File(nF, 2), Data(Content) >> \o Terminator,
     << File(nF, 2), Data(Content) >>,
     << File(nA, 1), Data(<<120>>), File(nF, 2), Data(Content), File(nB, 0) >> \o Terminator,
     TreeArchive,
     \* a regular file with typeflag '\0', and a symlink to it
     << OldFile(nF, 2), Data(Content), Sym(nA, nF) >> \o Terminator,
     \* symlink chains a -> b -> c ending at the regular file c, in three orders
     << Sym(nA, nB), Sym(nB, nC), File(nC, 2), Data(Content) >> \o Terminator,
     << File(nC, 2), Data(Content), Sym(nB, nC), Sym(nA, nB) >> \o Terminator,
     << Sym(nB, nC), File(nC, 2), Data(Content), Sym(nA, nB) >>,
     \* a self-referential symlink and a cycle of two
     << File(nF, 1), Data(<<120>>), Sym(nA, nA) >> \o Terminator,
     << Sym(nA, nB), Sym(nB, nA) >> \o Terminator,
     \* symlinks to a directory
     << Dir(nD), File(nDA, 0), File(nDB, 0), Sym(nS, nD) >> \o Terminator,
     << Sym(nS, nD), Dir(nD), File(nDA, 0) >> \o Terminator,
     << File(nF, 0), Dir(nE), File(nEX, 1), Data(<<98>>), File(nEA, 0) >> \o Terminator,
     \* malformed headers: each field alone, then several at once
     << File(nA, 0), Corrupt(nB, BadMagics[1], TVERSION, 0) >> \o Terminator,
     << File(nA, 0), Corrupt(nB, BadMagics[2], TVERSION, 0) >> \o Terminator,
     << Corrupt(nB, BadMagics[2], TVERSION, 0) >> \o Terminator,
     << File(nA, 0), Corrupt(nB, Ustar, BadVersion, 0) >> \o Terminator,
     << File(nA, 0), Corrupt(nB, Ustar, TVERSION, 1) >> \o Terminator,
     << Corrupt(nB, BadMagics[1], BadVersion, 1), File(nA, 0) >> \o Terminator,
     << Corrupt(nB, BadMagics[1], TVERSION, 1) >> \o Terminator,
     << Corrupt(nB, Ustar, BadVersion, 1) >> \o Terminator >>

NArchives == Len(Archives)

\* a header whose prefix field is filled, with the checksum of the whole
Prefixed(b, prefix) ==
  SubSeq(b, 1, 7)
    \o << Seg(OffChksum,
              OctalDigits(SegSum(SubSeq(b, 1, 7)) + SumSeq(prefix) + 8 * SP, 6)
                \o <<NUL, SP>>),
          Seg(OffPrefix, prefix) >>

\* "p", a prefix
nP == <<112>>

\* prefix + "/" + name, or name when the prefix is empty
FullPath(b) ==
  IF Len(b) >= 9 /\ b[9].bytes # <<>> THEN b[9].bytes \o <<SLASH>> \o b[1].bytes
  ELSE b[1].bytes

\* archives with entries whose prefix field is filled
ArchivesPrefix ==
  << << File(nA, 0), Prefixed(File(nF, 1), nP), Data(<<120>>), File(nB, 0) >> \o Terminator,
     << Prefixed(Dir(nD), nP), Prefixed(File(nDA, 0), nP), File(nF, 0) >> \o Terminator,
     << Prefixed(File(nF, 2), nP), Data(Content), File(nF, 1), Data(<<98>>) >> \o Terminator >>


\* the archive file as read() returns it: a is its sequence of blocks
FileLen(a) == HeaderSize * Len(a)

FileByte(a, p) == BlockByte(a[(p \div HeaderSize) + 1], p % HeaderSize)

\* the sum of the bytes of segment seg of the block at offset base that lie
\* at the file offsets lo..hi
SegPart(seg, base, lo, hi) ==
  LET from == IF lo - base - seg.off + 1 > 1 THEN lo - base - seg.off + 1 ELSE 1
      to == IF hi - base - seg.off + 1 < Len(seg.bytes)
            THEN hi - base - seg.off + 1 ELSE Len(seg.bytes)
  IN  SumSeq(SubSeq(seg.bytes, from, to))

RECURSIVE BlockPart(_, _, _, _)
BlockPart(b, base, lo, hi) ==
  IF b = <<>> THEN 0
  ELSE SegPart(Head(b), base, lo, hi) + BlockPart(Tail(b), base, lo, hi)

\* the sum of the bytes of archive a at the file offsets lo..hi, which lie
\* in one stretch of at most 512 bytes: all bytes outside the segments are 0
ByteSum(a, lo, hi) ==
  LET k == (lo \div HeaderSize) + 1
  IN  BlockPart(a[k], HeaderSize * (k - 1), lo, hi)
      + (IF k < Len(a)
         THEN BlockPart(a[k + 1], HeaderSize * k, lo, hi) ELSE 0)

(* ---------------------------------------------------------------------- *)
(* C library calls on the bytes of a header read at file offset p          *)
(* ---------------------------------------------------------------------- *)

\* read(tar_fd, &header, sizeof(tar_header_t)) == sizeof(tar_header_t)
ReadsHeader(a, p) == p + HeaderSize <= FileLen(a)

\* byte i of the header read at offset p
HB(a, p, i) == FileByte(a, p + i)

RECURSIVE CStr(_, _, _)
\* the C string that starts at byte i of the header: the bytes up to the
\* first NUL (the fields are not NUL-terminated by the struct, so a string
\* runs into the following fields; it is cut at the end of the struct)
CStr(a, p, i) ==
  IF i >= HeaderSize \/ HB(a, p, i) = NUL THEN <<>>
  ELSE <<HB(a, p, i)>> \o CStr(a, p, i + 1)

CharAt(s, i) == IF i < Len(s) THEN s[i + 1] ELSE NUL

RECURSIVE StrncmpEq(_, _, _, _, _, _)
\* strncmp(header + off, s, n) == 0, comparing from index i on
StrncmpEq(a, p, off, s, n, i) ==
  IF i >= n THEN TRUE
  ELSE IF HB(a, p, off + i) # CharAt(s, i) THEN FALSE
  ELSE IF CharAt(s, i) = NUL THEN TRUE
  ELSE StrncmpEq(a, p, off, s, n, i + 1)

\* strcmp(header + off, s) == 0
StrcmpEq(a, p, off, s) == CStr(a, p, off) = s

IsSpace(c) == c = SP \/ (9 <= c /\ c <= 13)
IsOctal(c) == ZERO <= c /\ c <= ZERO + 7

RECURSIVE SkipSpace(_, _, _)
SkipSpace(a, p, i) ==
  IF i < HeaderSize /\ IsSpace(HB(a, p, i)) THEN SkipSpace(a, p, i + 1) ELSE i

RECURSIVE OctalRun(_, _, _)
\* the octal digits strtol consumes from byte i on
OctalRun(a, p, i) ==
  IF i < HeaderSize /\ IsOctal(HB(a, p, i))
  THEN <<HB(a, p, i) - ZERO>> \o OctalRun(a, p, i + 1)
  ELSE <<>>

\* the byte strtol looks for a sign at, after the white space
SignAt(a, p, i) == IF i < HeaderSize THEN HB(a, p, i) ELSE NUL

\* one sign is accepted, the digits stop at the first byte that is not octal
StrtolFrom(a, p, i) ==
  [neg |-> SignAt(a, p, i) = 45,
   digits |-> OctalRun(a, p, IF SignAt(a, p, i) \in {43, 45} THEN i + 1 ELSE i)]

\* strtol(header + off, NULL, 8) as sign and digits: white space is skipped
StrtolParse(a, p, off) == StrtolFrom(a, p, SkipSpace(a, p, off))

RECURSIVE DigitsValue(_)
DigitsValue(ds) ==
  IF ds = <<>> THEN 0 ELSE 8 * DigitsValue(SubSeq(ds, 1, Len(ds) - 1)) + ds[Len(ds)]

LongOf(r) == IF r.neg THEN 0 - DigitsValue(r.digits) ELSE DigitsValue(r.digits)

\* strtol(header + off, NULL, 8) as a long
Strtol8(a, p, off) == LongOf(StrtolParse(a, p, off))

\* 2^32 / 512: an unsigned int v is kept as v = 512 * q + r, q < UIntBlocks
UIntBlocks == 8388608

\* 8 * v + d as an unsigned int
UIntStep(v, d) ==
  [q |-> (8 * v.q + ((8 * v.r + d) \div HeaderSize)) % UIntBlocks,
   r |-> (8 * v.r + d) % HeaderSize]

RECURSIVE DigitsUInt(_)
\* the digits' value converted to unsigned int (modulo 2^32)
DigitsUInt(ds) ==
  IF ds = <<>> THEN [q |-> 0, r |-> 0]
  ELSE UIntStep(DigitsUInt(SubSeq(ds, 1, Len(ds) - 1)), ds[Len(ds)])

NegUInt(v) ==
  IF v.r = 0 THEN [q |-> (UIntBlocks - v.q) % UIntBlocks, r |-> 0]
  ELSE [q |-> UIntBlocks - 1 - v.q, r |-> HeaderSize - v.r]

UIntOf(r) == IF r.neg THEN NegUInt(DigitsUInt(r.digits)) ELSE DigitsUInt(r.digits)

\* unsigned int x = strtol(header + off, NULL, 8)
StrtolUInt(a, p, off) == UIntOf(StrtolParse(a, p, off))

(* ---------------------------------------------------------------------- *)
(* lib_tar.c: helpers                                                      *)
(* ---------------------------------------------------------------------- *)

\* ((size % 512 == 0) ? size : size + (512 - (size % 512))) / 512, in
\* unsigned int
RoundUp(size) == IF size.r = 0 THEN size.q ELSE (size.q + 1) % UIntBlocks

\* aligned_size(header) / 512: the computation is done in unsigned int
aligned_blocks(a, p) == RoundUp(StrtolUInt(a, p, OffSize))

\* the conversion to a long of 32 bits: the values from 2^31 on are negative
ToLong_32(blocks) == IF blocks >= UIntBlocks \div 2 THEN blocks - UIntBlocks ELSE blocks

\* the return of aligned_size, in blocks: the unsigned int is converted to
\* long, which holds every unsigned int (tests.c prints a size_t with %ld:
\* long has 64 bits)
ToLong(blocks) == blocks

aligned_size(a, p) == HeaderSize * ToLong(aligned_blocks(a, p))

\* the loop of check_sum: every byte of the header is added, with a space
\* in place of each byte i, 148 <= i <= 155
HeaderSum(a, p) ==
  ByteSum(a, p, p + 147) + 8 * SP + ByteSum(a, p + 156, p + HeaderSize - 1)

\* sum == checksum
SumEq(checksum, sum) ==
  IF checksum = [q |-> sum \div HeaderSize, r |-> sum % HeaderSize] THEN 1 ELSE 0

check_sum(a, p) == SumEq(StrtolUInt(a, p, OffChksum), HeaderSum(a, p))

valid_archive(a, p, nheader) ==
  IF HB(a, p, OffMagic) = NUL THEN nheader
  ELSE IF ~StrncmpEq(a, p, OffMagic, TMAGIC, TMAGLEN, 0) THEN -1
  ELSE IF ~StrncmpEq(a, p, OffVersion, TVERSION, TVERSLEN, 0) THEN -2
  ELSE IF check_sum(a, p) = 0 THEN -3
  ELSE 0

(* ---------------------------------------------------------------------- *)
(* lib_tar.c: the scans.  Each returns its result and the file offset it   *)
(* leaves the descriptor at.                                               *)
(* ---------------------------------------------------------------------- *)

Res(ret, p) == [ret |-> ret, pos |-> p]

RECURSIVE check_archive(_, _, _)

\* check_archive, lines 26-35: return valid_arch, or count the header and
\* skip its content
check_archive_header(a, p, nheader, valid_arch) ==
  IF valid_arch # 0 THEN Res(valid_arch, p + HeaderSize)
  ELSE check_archive(a, p + HeaderSize + aligned_size(a, p), nheader + 1)

check_archive(a, p, nheader) ==
  IF ~ReadsHeader(a, p) THEN Res(nheader, 0)
  ELSE check_archive_header(a, p, nheader, valid_archive(a, p, nheader))

RECURSIVE exists(_, _, _)
exists(a, p, path) ==
  IF ~ReadsHeader(a, p) THEN Res(0, 0)
  ELSE IF HB(a, p, OffName) = NUL THEN Res(0, p + HeaderSize)
  ELSE IF StrcmpEq(a, p, OffName, path) THEN Res(1, p + HeaderSize)
  ELSE exists(a, p + HeaderSize + aligned_size(a, p), path)

\* the test of line 166 left out: the typeflag asked for, and no other
flag_matches_strict(t, typeflag) == IF t = typeflag THEN 1 ELSE 0

\* check_flag, lines 166-173: t is header.typeflag
flag_matches(t, typeflag) ==
  IF typeflag = REGTYPE /\ (t = REGTYPE \/ t = AREGTYPE) THEN 1
  ELSE IF t = typeflag THEN 1
  ELSE 0

RECURSIVE check_flag(_, _, _, _)
check_flag(a, p, path, typeflag) ==
  IF ~ReadsHeader(a, p) THEN Res(0, 0)
  ELSE IF HB(a, p, OffName) = NUL THEN Res(0, p + HeaderSize)
  ELSE IF StrcmpEq(a, p, OffName, path)
       THEN Res(flag_matches(HB(a, p, OffTypeflag), typeflag), p + HeaderSize)
  ELSE check_flag(a, p + HeaderSize + aligned_size(a, p), path, typeflag)

is_dir(a, p, path) == check_flag(a, p, path, DIRTYPE)
is_file(a, p, path) == check_flag(a, p, path, REGTYPE)
is_symlink(a, p, path) == check_flag(a, p, path, SYMTYPE)

Min(x, y) == IF x <= y THEN x ELSE y
Max(x, y) == IF x >= y THEN x ELSE y

\* the bytes read(tar_fd, dest, n) returns at offset p
ReadBytes(a, p, n) ==
  [i \in 1..Min(n, Max(0, FileLen(a) - p)) |-> FileByte(a, p + i - 1)]

\* result of read_file: the return value, the offset left, *len, the bytes
\* written to dest, and whether the call returns at all
RdRes(ret, p, len, dest) ==
  [ret |-> ret, pos |-> p, len |-> len, dest |-> dest, returns |-> TRUE, ub |-> FALSE]

\* a recursion that re-enters a call it is already in (same function, same
\* arguments, same file offset, no other state) never returns
NoReturn == [returns |-> FALSE, ub |-> FALSE]

RECURSIVE read_file(_, _, _, _, _, _)

\* read_file, lines 379-386, without the lseek(tar_fd, 0, SEEK_SET) of line
\* 381: the link target is looked for from the header after the symlink on
read_file_link_norewind(a, p, new_path, offset, len, seen) ==
  read_file(a, p + HeaderSize, new_path, offset, len, seen)

\* read_file, lines 379-386: the symlink is followed from the start of the
\* archive; seen holds the (path, offset) pairs of the calls of this
\* recursion so far
read_file_link(a, p, new_path, offset, len, seen) ==
  IF <<new_path, 0>> \in seen THEN NoReturn
  ELSE read_file(a, 0, new_path, offset, len, seen \cup {<<new_path, 0>>})

\* read_file, lines 406-412: got is what read() delivered of the left bytes
\* of the file from offset on
read_file_copy(start, left, got) ==
  RdRes(left - Len(got), start + Len(got), Len(got), got)

\* read_file_data without the cut of data_len to the bytes left (lines
\* 402-405): read() is asked for *len bytes
read_file_data_nomin(a, p, offset, len, file_size) ==
  IF file_size >= 0 /\ offset >= file_size THEN RdRes(-2, p + HeaderSize, len, <<>>)
  ELSE read_file_copy(p + HeaderSize + offset, file_size - offset,
                      ReadBytes(a, p + HeaderSize + offset, len))

\* read_file, lines 391-412
read_file_data(a, p, offset, len, file_size) ==
  IF file_size >= 0 /\ offset >= file_size THEN RdRes(-2, p + HeaderSize, len, <<>>)
  ELSE read_file_copy(p + HeaderSize + offset, file_size - offset,
                      ReadBytes(a, p + HeaderSize + offset,
                                IF file_size >= 0 THEN Min(len, file_size - offset)
                                ELSE len))

\* read_file_entry without the test of lines 387-389: an entry of any type
\* but symlink is read as a file
read_file_entry_anytype(a, p, offset, len, seen, t) ==
  IF t = SYMTYPE THEN read_file_link(a, p, CStr(a, p, OffLinkname), offset, len, seen)
  ELSE read_file_data(a, p, offset, len, Strtol8(a, p, OffSize))

\* read_file, lines 377-413: the header whose name is path; t is its typeflag
read_file_entry(a, p, offset, len, seen, t) ==
  IF t = SYMTYPE THEN read_file_link(a, p, CStr(a, p, OffLinkname), offset, len, seen)
  ELSE IF t # REGTYPE /\ t # AREGTYPE THEN RdRes(-1, p + HeaderSize, len, <<>>)
  ELSE read_file_data(a, p, offset, len, Strtol8(a, p, OffSize))

read_file(a, p, path, offset, len, seen) ==
  IF ~ReadsHeader(a, p) THEN RdRes(-1, 0, len, <<>>)
  ELSE IF HB(a, p, OffName) = NUL THEN RdRes(-1, 0, len, <<>>)
  ELSE IF StrcmpEq(a, p, OffName, path)
       THEN read_file_entry(a, p, offset, len, seen, HB(a, p, OffTypeflag))
  ELSE read_file(a, p + HeaderSize + aligned_size(a, p), path, offset, len, seen)

\* result of get_symlink: NULL or the string returned, the offset left, and
\* ub: strcat(path, "/") wrote to a buffer that has no room for it
SymRes(null, val, p, ub) ==
  [null |-> null, val |-> val, pos |-> p, ub |-> ub, returns |-> TRUE]

RECURSIVE get_symlink(_, _, _, _, _)

\* get_symlink, lines 330-335: r is the result of is_symlink on the link
\* target, called after the lseek(tar_fd, 0, SEEK_SET) of line 326
get_symlink_target(a, path, room, seen, linkname, r) ==
  IF r.ret # 0
  THEN IF <<linkname, r.pos>> \in seen THEN NoReturn
       ELSE get_symlink(a, r.pos, linkname, Len(linkname) < 99,
                        seen \cup {<<linkname, r.pos>>})
  ELSE SymRes(FALSE, path \o <<SLASH>>, r.pos, ~room)

\* get_symlink, lines 325-335: the header whose name is path
get_symlink_entry(a, p, path, room, seen, linkname) ==
  IF HB(a, p, OffTypeflag) = SYMTYPE
  THEN get_symlink_target(a, path, room, seen, linkname, is_symlink(a, 0, linkname))
  ELSE SymRes(FALSE, path \o <<SLASH>>, p + HeaderSize, ~room)

\* room: the buffer path points to is writable and has room for one more
\* character (a string literal, as tests.c passes, has none).  The result
\* is the one of the run in which the write goes through.
get_symlink(a, p, path, room, seen) ==
  IF ~ReadsHeader(a, p) THEN SymRes(TRUE, <<>>, 0, FALSE)
  ELSE IF HB(a, p, OffName) = NUL THEN SymRes(TRUE, <<>>, p + HeaderSize, FALSE)
  ELSE IF StrcmpEq(a, p, OffName, path)
       THEN get_symlink_entry(a, p, path, room, seen, CStr(a, p, OffLinkname))
  ELSE get_symlink(a, p + HeaderSize + aligned_size(a, p), path, room, seen)

\* the position of the first '/' of s (0-based), or -1: strchr(s, '/')
Strchr(s) ==
  IF \E i \in 1..Len(s) : s[i] = SLASH
  THEN (CHOOSE i \in 1..Len(s) : s[i] = SLASH /\ \A j \in 1..(i - 1) : s[j] # SLASH) - 1
  ELSE -1

\* the test of lines 286-287 left out: every entry under the path passes
DirectChild_any(relative_path) == TRUE

\* list, lines 286-287: the remainder has no slash, or its first slash is
\* its last character
DirectChild(relative_path) ==
  Strchr(relative_path) = -1 \/ Strchr(relative_path) = Len(relative_path) - 1

\* list_entry without the test count < *no_entries of line 289
list_entry_nocap(path, cap, entries, name, under) ==
  IF /\ under
     /\ DirectChild(SubSeq(name, Len(path) + 1, Len(name)))
     /\ name # path
  THEN Append(entries, SubSeq(name, 1, Min(Len(name), 99)))
  ELSE entries

\* list, lines 282-295: the entries after the header named name; under is
\* strncmp(header.name, path, path_len) == 0
list_entry(path, cap, entries, name, under) ==
  IF /\ under
     /\ DirectChild(SubSeq(name, Len(path) + 1, Len(name)))
     /\ Len(entries) < cap
     /\ name # path
  THEN Append(entries, SubSeq(name, 1, Min(Len(name), 99)))
  ELSE entries

RECURSIVE list_loop(_, _, _, _, _)
\* the while loop of list from offset p on, with the entries written so far
list_loop(a, p, path, cap, entries) ==
  IF ~ReadsHeader(a, p) \/ HB(a, p, OffName) = NUL THEN entries
  ELSE list_loop(a, p + HeaderSize + aligned_size(a, p), path, cap,
                 list_entry(path, cap, entries, CStr(a, p, OffName),
                            StrncmpEq(a, p, OffName, path, Len(path), 0)))

\* result of list: the return value, the offset left, *no_entries, the
\* slots of entries written, and ub as for get_symlink
LsRes(ret, p, n, entries, ub) ==
  [ret |-> ret, pos |-> p, no_entries |-> n, entries |-> entries,
   ub |-> ub, returns |-> TRUE]

RECURSIVE list(_, _, _, _, _, _)

\* list, lines 303-311: lseek to 0, *no_entries = count, return count
list_count(written) == LsRes(Len(written), 0, Len(written), written, FALSE)

\* list, line 270: what list(tar_fd, new_path, ...) returns, after a
\* get_symlink whose strcat was undefined or not
list_return(ub, r) == [r EXCEPT !.ub = @ \/ ub]

\* list, lines 266-270: g is the result of get_symlink; new_path is a
\* strdup, it has no room for another character
list_new_path(a, cap, seen, g) ==
  IF ~g.returns THEN NoReturn
  ELSE IF g.null THEN LsRes(0, g.pos, cap, <<>>, g.ub)
  ELSE IF <<g.val, g.pos>> \in seen THEN [NoReturn EXCEPT !.ub = g.ub]
  ELSE list_return(g.ub, list(a, g.pos, g.val, cap, FALSE, seen \cup {<<g.val, g.pos>>}))

\* list, lines 265-311: s2 is the result of the is_symlink of line 265
list_kind(a, path, cap, room, seen, s2) ==
  IF s2.ret # 0
  THEN list_new_path(a, cap, seen, get_symlink(a, s2.pos, path, room, {<<path, s2.pos>>}))
  ELSE list_count(list_loop(a, 0, path, cap, <<>>))

\* list, line 262, is_dir returned 0: s is the result of is_symlink
list_notdir(a, path, cap, room, seen, s) ==
  IF s.ret = 0 THEN LsRes(0, s.pos, cap, <<>>, FALSE)
  ELSE list_kind(a, path, cap, room, seen, is_symlink(a, s.pos, path))

\* list, line 262: d is the result of is_dir
list_checked(a, path, cap, room, seen, d) ==
  IF d.ret # 0 THEN list_kind(a, path, cap, room, seen, is_symlink(a, d.pos, path))
  ELSE list_notdir(a, path, cap, room, seen, is_symlink(a, d.pos, path))

list(a, p, path, cap, room, seen) ==
  list_checked(a, path, cap, room, seen, is_dir(a, p, path))

(* ---------------------------------------------------------------------- *)
(* The state machine: one process holding one descriptor on one archive    *)
(* ---------------------------------------------------------------------- *)

\* the paths a caller asks about: every name and every link target stored
\* in the archive, and a path that no archive holds
PathsOf(a) ==
  ({a[k][1].bytes : k \in {j \in 1..Len(a) : Len(a[j]) > 1}}
   \cup {FullPath(a[k]) : k \in {j \in 1..Len(a) : Len(a[j]) > 1}}
   \cup {a[k][5].bytes : k \in {j \in 1..Len(a) : Len(a[j]) > 1}}
   \cup {nX}) \ {<<>>}

Paths == PathsOf(ar)

Idle == [op |-> "none", outcome |-> "returned"]

\* the caller holds no result of an earlier call: a first call is made
Fresh == last.op \in {"open", "none"}

\* the last call returned and its results are at hand
Returned(op) == last.op = op /\ last.outcome = "returned"

\* a call that wrote without room is undefined: it goes on as if the write
\* were harmless, or the process dies of it
Crashes(r) == IF r.ub THEN BOOLEAN ELSE {FALSE}

Outcome(r, crash) ==
  IF crash THEN "crashed" ELSE IF ~r.returns THEN "diverged" ELSE "returned"

Init ==
  /\ ar \in {Archives[k] : k \in 1..NArchives}
  /\ pos = 0
  /\ last = [op |-> "open", outcome |-> "returned"]

\* tests.c, main: close(fd) and a new run's open(argv[1], O_RDONLY)
Open ==
  /\ last.op # "open"
  /\ pos' = 0
  /\ last' = [op |-> "open", outcome |-> "returned"]
  /\ UNCHANGED ar

\* the caller is done with the results of the call; the descriptor stays
\* where the call left it
Forget ==
  /\ last.op \notin {"open", "none"}
  /\ last.outcome = "returned"
  /\ last' = Idle
  /\ UNCHANGED <<ar, pos>>

CheckArchiveReturns(r) ==
  /\ pos' = r.pos
  /\ last' = [op |-> "check_archive", outcome |-> "returned", pos0 |-> pos,
              ret |-> r.ret]

CheckArchive ==
  /\ Fresh
  /\ CheckArchiveReturns(check_archive(ar, pos, 0))
  /\ UNCHANGED ar

ExistsReturns(path, again, r) ==
  /\ pos' = r.pos
  /\ last' = [op |-> "exists", outcome |-> "returned", pos0 |-> pos,
              path |-> path, ret |-> r.ret, again |-> again,
              prev |-> IF again THEN [pos0 |-> last.pos0, ret |-> last.ret]
                       ELSE [pos0 |-> -1, ret |-> 0]]

ExistsCall(path, again) ==
  /\ ExistsReturns(path, again, exists(ar, pos, path))
  /\ UNCHANGED ar

Exists ==
  /\ Fresh
  /\ \E path \in Paths : ExistsCall(path, FALSE)

\* the caller asks once more about the path it has just asked about
ExistsAgain ==
  /\ Returned("exists")
  /\ ~last.again
  /\ ExistsCall(last.path, TRUE)

CheckFlagReturns(path, typeflag, r) ==
  /\ pos' = r.pos
  /\ last' = [op |-> "check_flag", outcome |-> "returned", pos0 |-> pos,
              path |-> path, typeflag |-> typeflag, ret |-> r.ret]

\* is_dir, is_file and is_symlink
CheckFlag ==
  /\ Fresh
  /\ \E path \in Paths, typeflag \in {DIRTYPE, REGTYPE, SYMTYPE} :
       CheckFlagReturns(path, typeflag, check_flag(ar, pos, path, typeflag))
  /\ UNCHANGED ar

ListEnds(call, r, outcome) ==
  IF outcome = "returned"
  THEN /\ pos' = r.pos
       /\ last' = call @@ [outcome |-> "returned", ret |-> r.ret,
                           no_entries |-> r.no_entries, entries |-> r.entries]
  ELSE /\ pos' = pos
       /\ last' = call @@ [outcome |-> outcome]

ListCall(call, r) ==
  \E crash \in Crashes(r) : ListEnds(call, r, Outcome(r, crash))

\* cap is the value of *no_entries at the call
List ==
  /\ Fresh
  /\ \E path \in Paths, cap \in 0..MaxCap, room \in BOOLEAN :
       ListCall([op |-> "list", pos0 |-> pos, path |-> path, cap |-> cap],
                list(ar, pos, path, cap, room, {<<path, pos>>}))
  /\ UNCHANGED ar

GetSymlinkEnds(call, r, outcome) ==
  IF outcome = "returned"
  THEN /\ pos' = r.pos
       /\ last' = call @@ [outcome |-> "returned", null |-> r.null, val |-> r.val]
  ELSE /\ pos' = pos
       /\ last' = call @@ [outcome |-> outcome]

GetSymlinkCall(call, r) ==
  \E crash \in Crashes(r) : GetSymlinkEnds(call, r, Outcome(r, crash))

GetSymlink ==
  /\ Fresh
  /\ \E path \in Paths, room \in BOOLEAN :
       GetSymlinkCall([op |-> "get_symlink", pos0 |-> pos, path |-> path, room |-> room],
                      get_symlink(ar, pos, path, room, {<<path, pos>>}))
  /\ UNCHANGED ar

ReadFileEnds(call, r) ==
  IF r.returns
  THEN /\ pos' = r.pos
       /\ last' = call @@ [outcome |-> "returned", ret |-> r.ret,
                           len |-> r.len, dest |-> r.dest]
  ELSE /\ pos' = pos
       /\ last' = call @@ [outcome |-> "diverged"]

\* len is the value of *len at the call; prev is the call it continues
ReadFileCall(path, offset, len, next, prev) ==
  /\ ReadFileEnds([op |-> "read_file", pos0 |-> pos, path |-> path,
                   offset |-> offset, cap |-> len, next |-> next, prev |-> prev],
                  read_file(ar, pos, path, offset, len, {<<path, pos>>}))
  /\ UNCHANGED ar

NoPrev == [pos0 |-> -1, offset |-> 0, cap |-> 0, ret |-> 0, len |-> 0, dest |-> <<>>]

ReadFile ==
  /\ Fresh
  /\ \E path \in Paths, offset \in 0..MaxOffset, len \in 0..MaxLen :
       ReadFileCall(path, offset, len, FALSE, NoPrev)

\* the caller goes on reading the same file where the call before stopped:
\* at offset + bytes written
ReadFileNext ==
  /\ Returned("read_file")
  /\ ~last.next
  /\ last.ret >= 0
  /\ \E len \in 0..MaxLen :
       ReadFileCall(last.path, last.offset + last.len, len, TRUE,
                    [pos0 |-> last.pos0, offset |-> last.offset, cap |-> last.cap,
                     ret |-> last.ret, len |-> last.len, dest |-> last.dest])

Next ==
  \/ Open
  \/ Forget
  \/ CheckArchive
  \/ Exists
  \/ ExistsAgain
  \/ CheckFlag
  \/ List
  \/ GetSymlink
  \/ ReadFile
  \/ ReadFileNext

Spec == Init /\ [][Next]_vars

\* the same operations on the archives whose entries have a prefix
InitPrefix ==
  /\ ar \in {ArchivesPrefix[k] : k \in 1..Len(ArchivesPrefix)}
  /\ pos = 0
  /\ last = [op |-> "open", outcome |-> "returned"]

SpecPrefix == InitPrefix /\ [][Next]_vars

(* ---------------------------------------------------------------------- *)
(* src/unnamed/part_000: the variant that rewinds before every scan        *)
(* ---------------------------------------------------------------------- *)

\* memcmp(header, &(tar_header_t){0}, sizeof(tar_header_t)) == 0
is_null_header(a, p) == ByteSum(a, p, p + HeaderSize - 1) = 0

\* file_size + ((512 - (file_size % 512)) % 512), computed in size_t and
\* handed to lseek as an off_t: a multiple of 512 of the sign of file_size
PadTo512(file_size) == file_size + ((HeaderSize - (file_size % HeaderSize)) % HeaderSize)

total_entry(a, p) == PadTo512(Strtol8(a, p, OffSize))

\* lseek(tar_fd, n, SEEK_CUR) after the read of the header at p; a seek
\* to before the start of the file fails and leaves the offset
SeekCur(p, n) == IF p + HeaderSize + n < 0 THEN p + HeaderSize ELSE p + HeaderSize + n

check_checksum(a, p) == HeaderSum(a, p)

is_valid_checksum(a, p) == SumEq(StrtolUInt(a, p, OffChksum), check_checksum(a, p))

validate_magic_and_version(a, p) ==
  IF ~StrncmpEq(a, p, OffMagic, TMAGIC, TMAGLEN, 0) THEN 0
  ELSE IF ~StrncmpEq(a, p, OffVersion, TVERSION, TVERSLEN, 0) THEN 0
  ELSE 1

is_directory_cond(t) == t = DIRTYPE
is_file_cond(t) == t = REGTYPE \/ t = AREGTYPE
is_symlink_cond(t) == t = SYMTYPE

\* condition(&header, path), for the three conditions passed
condition(cond, t) ==
  IF cond = "is_dir" THEN is_directory_cond(t)
  ELSE IF cond = "is_file" THEN is_file_cond(t)
  ELSE is_symlink_cond(t)

RECURSIVE archive_search_loop(_, _, _, _)
\* the while loop of archive_search from offset p on
archive_search_loop(a, p, path, cond) ==
  IF ~ReadsHeader(a, p) THEN Res(0, p)
  ELSE IF is_null_header(a, p) THEN Res(0, p + HeaderSize)
  ELSE IF validate_magic_and_version(a, p) = 0 \/ is_valid_checksum(a, p) = 0
       THEN Res(0, p + HeaderSize)
  ELSE IF StrncmpEq(a, p, OffName, path, Len(path), 0)
       THEN Res(IF condition(cond, HB(a, p, OffTypeflag)) THEN 1 ELSE 0, p + HeaderSize)
  ELSE IF ~StrncmpEq(a, p, OffVersion, TVERSION, TVERSLEN, 0) THEN Res(-2, p + HeaderSize)
  ELSE archive_search_loop(a, SeekCur(p, total_entry(a, p)), path, cond)

\* the scan goes on from where the descriptor stands: no rewind
SeekSet_keep(p, offset) == p

\* lseek(tar_fd, offset, SEEK_SET) on a descriptor that stands at p
SeekSet(p, offset) == offset

\* lseek(tar_fd, 0, SEEK_SET), then the loop
archive_search(a, p, path, cond) == archive_search_loop(a, SeekSet(p, 0), path, cond)

RECURSIVE check_archive_loop(_, _, _)
\* the while loop of check_archive of part_000 from offset p on
check_archive_loop(a, p, valid_headers) ==
  IF ~ReadsHeader(a, p) THEN Res(valid_headers, p)
  ELSE IF is_null_header(a, p) THEN Res(valid_headers, p + HeaderSize)
  ELSE IF validate_magic_and_version(a, p) = 0 THEN Res(-1, p + HeaderSize)
  ELSE IF is_valid_checksum(a, p) = 0 THEN Res(-3, p + HeaderSize)
  ELSE check_archive_loop(a, SeekCur(p, total_entry(a, p)), valid_headers + 1)

check_archive_part000(a, p) == check_archive_loop(a, SeekSet(p, 0), 0)

RECURSIVE exists_loop(_, _, _)
\* the while loop of exists of part_000 from offset p on
exists_loop(a, p, path) ==
  IF ~ReadsHeader(a, p) THEN Res(0, p)
  ELSE IF is_null_header(a, p) THEN Res(0, p + HeaderSize)
  ELSE IF validate_magic_and_version(a, p) = 0 \/ is_valid_checksum(a, p) = 0
       THEN Res(0, p + HeaderSize)
  ELSE IF StrncmpEq(a, p, OffName, path, 100, 0) THEN Res(1, p + HeaderSize)
  ELSE exists_loop(a, SeekCur(p, total_entry(a, p)), path)

exists_part000(a, p, path) == exists_loop(a, SeekSet(p, 0), path)

\* "e/", "d/ab" and "d": a directory next to the file "e", a file whose
\* name starts with the name of another, and a name without its slash
nESlash == <<101, 47>>
nDAB == <<100, 47, 97, 98>>
nDNoSlash == <<100>>

\* archives without entry, of files, the tree of the documentation of
\* list, a symlink chain, archives in which one name starts with another,
\* and malformed headers
Archives000 ==
  << Terminator,
     << >>,
     << File(nA, 1), Data(<<120>>), File(nF, 2), Data(Content), File(nB, 0) >> \o Terminator,
     TreeArchive,
     << Sym(nA, nB), Sym(nB, nC), File(nC, 2), Data(Content) >> \o Terminator,
     << Dir(nESlash), File(nE, 0) >> \o Terminator,
     << File(nDAB, 1), Data(<<98>>), Dir(nDA) >> \o Terminator,
     << File(nA, 0), Corrupt(nB, BadMagics[1], TVERSION, 0) >> \o Terminator,
     << File(nA, 0), Corrupt(nB, BadMagics[2], TVERSION, 0) >> \o Terminator,
     << File(nA, 0), Corrupt(nB, Ustar, BadVersion, 0) >> \o Terminator,
     << File(nA, 0), Corrupt(nB, Ustar, TVERSION, 1) >> \o Terminator,
     << Corrupt(nB, Ustar, BadVersion, 1), File(nA, 0) >> \o Terminator >>

\* the paths of the archive, and the names cut short by one character
Paths000 ==
  PathsOf(ar) \cup {nDNoSlash}
    \cup ({SubSeq(n, 1, Len(n) - 1) : n \in PathsOf(ar)} \ {<<>>})

Init000 ==
  /\ ar \in {Archives000[k] : k \in 1..Len(Archives000)}
  /\ pos = 0
  /\ last = [op |-> "open", outcome |-> "returned"]

CheckArchive000Returns(r) ==
  /\ pos' = r.pos
  /\ last' = [op |-> "check_archive", outcome |-> "returned", pos0 |-> pos,
              ret |-> r.ret]

CheckArchive000 ==
  /\ CheckArchive000Returns(check_archive_part000(ar, pos))
  /\ UNCHANGED ar

Exists000Returns(path, r) ==
  /\ pos' = r.pos
  /\ last' = [op |-> "exists", outcome |-> "returned", pos0 |-> pos,
              path |-> path, ret |-> r.ret]

Exists000 ==
  /\ \E path \in Paths000 : Exists000Returns(path, exists_part000(ar, pos, path))
  /\ UNCHANGED ar

ArchiveSearchReturns(path, cond, r) ==
  /\ pos' = r.pos
  /\ last' = [op |-> "archive_search", outcome |-> "returned", pos0 |-> pos,
              path |-> path, cond |-> cond, ret |-> r.ret]

\* is_dir, is_file and is_symlink of part_000
ArchiveSearch ==
  /\ \E path \in Paths000, cond \in {"is_dir", "is_file", "is_symlink"} :
       ArchiveSearchReturns(path, cond, archive_search(ar, pos, path, cond))
  /\ UNCHANGED ar

Next000 ==
  \/ Open
  \/ CheckArchive000
  \/ Exists000
  \/ ArchiveSearch

Spec000 == Init000 /\ [][Next000]_vars

(* ---------------------------------------------------------------------- *)
(* src/skeleton/lib_tar.c: the variant that wraps the descriptor in a      *)
(* stream and matches the path assembled from prefix and name              *)
(* ---------------------------------------------------------------------- *)

\* the value of pos when the descriptor is closed
Closed == -1

\* sizeof(full_path) in is_path, where full_path is a char *: the size of
\* a pointer of the build
SizeofPtr == {4, 8}

\* the first n characters of the string s
Take(s, n) == SubSeq(s, 1, Min(Len(s), n))

\* snprintf(full_path, size_full_path, "%s/%s", header.prefix, header.name)
Snprintf(prefix, name, size_full_path) ==
  Take(prefix \o <<SLASH>> \o name, size_full_path - 1)

\* strncpy(full_path, header.name, size_full_path)
Strncpy(name, size_full_path) == Take(name, size_full_path)

\* is_path, lines 185-191: full_path[sizeof(full_path) - 1] = '\0', then
\* the comparison with path
is_path_cmp(full_path, path, nheader, ptr) ==
  IF Take(full_path, ptr - 1) = path THEN nheader ELSE -1

\* ptr is sizeof(char *); size_full_path is the 256 of the callers
is_path(a, p, path, size_full_path, nheader, ptr) ==
  IF HB(a, p, OffName) = NUL THEN 0
  ELSE IF HB(a, p, OffPrefix) # NUL
       THEN is_path_cmp(Snprintf(CStr(a, p, OffPrefix), CStr(a, p, OffName), size_full_path),
                        path, nheader, ptr)
  ELSE is_path_cmp(Strncpy(CStr(a, p, OffName), size_full_path), path, nheader, ptr)

RECURSIVE exists_skeleton_loop(_, _, _, _, _)

\* exists of src/skeleton/lib_tar.c, lines 144-154
exists_skeleton_header(a, p, path, nheader, ptr, path_finder) ==
  IF path_finder # -1 THEN Res(path_finder, Closed)
  ELSE exists_skeleton_loop(a, p + HeaderSize + aligned_size(a, p), path, nheader + 1, ptr)

\* the while loop of exists from offset p on; every return is after a
\* fclose(fd), which closes tar_fd
exists_skeleton_loop(a, p, path, nheader, ptr) ==
  IF ~ReadsHeader(a, p) THEN Res(0, Closed)
  ELSE exists_skeleton_header(a, p, path, nheader, ptr,
                              is_path(a, p, path, 256, nheader, ptr))

\* fdopen fails on a descriptor that is closed
exists_skeleton(a, p, path, ptr) ==
  IF p = Closed THEN Res(-1, Closed) ELSE exists_skeleton_loop(a, p, path, 0, ptr)

\* "longname1" and "d/c/de"
nLong == <<108, 111, 110, 103, 110, 97, 109, 101, 49>>
nDCDE == <<100, 47, 99, 47, 100, 101>>

\* archives of files, the tree of the documentation of list, entries with
\* a prefix, and names longer than a pointer
ArchivesSkeleton ==
  << Terminator,
     << File(nF, 2), Data(Content) >> \o Terminator,
     << File(nA, 1), Data(<<120>>), File(nF, 2), Data(Content), File(nB, 0) >> \o Terminator,
     TreeArchive,
     << File(nA, 0), Prefixed(File(nF, 1), nP), Data(<<120>>), File(nB, 0) >> \o Terminator,
     << Prefixed(Dir(nD), nP), Prefixed(File(nDA, 0), nP), File(nF, 0) >> \o Terminator,
     << File(nA, 0), File(nLong, 0), File(nDCDE, 0) >> \o Terminator >>

\* the paths a caller asks about: the names and the full paths of the
\* entries, whole and cut to the characters a pointer's size leaves, and
\* a path that no archive holds
PathsSkeleton ==
  {nX}
    \cup {ar[k][1].bytes : k \in {j \in 1..Len(ar) : Len(ar[j]) > 1}}
    \cup {FullPath(ar[k]) : k \in {j \in 1..Len(ar) : Len(ar[j]) > 1}}
    \cup {Take(FullPath(ar[k]), 7) : k \in {j \in 1..Len(ar) : Len(ar[j]) > 1}}
    \cup {Take(FullPath(ar[k]), 3) : k \in {j \in 1..Len(ar) : Len(ar[j]) > 1}}

InitSkeleton ==
  /\ ar \in {ArchivesSkeleton[k] : k \in 1..Len(ArchivesSkeleton)}
  /\ pos = 0
  /\ last = [op |-> "open", outcome |-> "returned"]

ExistsSkeletonReturns(path, ptr, r) ==
  /\ pos' = r.pos
  /\ last' = [op |-> "exists", outcome |-> "returned", pos0 |-> pos,
              path |-> path, ptr |-> ptr, ret |-> r.ret]

ExistsSkeleton ==
  /\ \E path \in PathsSkeleton, ptr \in SizeofPtr :
       ExistsSkeletonReturns(path, ptr, exists_skeleton(ar, pos, path, ptr))
  /\ UNCHANGED ar

\* is_path on the header stored in block k, as the nheader-th header read
IsPath ==
  /\ \E k \in 1..Len(ar), path \in PathsSkeleton, nheader \in 0..2, ptr \in SizeofPtr :
       /\ Len(ar[k]) > 1
       /\ last' = [op |-> "is_path", outcome |-> "returned", pos0 |-> pos,
                   block |-> k, path |-> path, nheader |-> nheader, ptr |-> ptr,
                   ret |-> is_path(ar, HeaderSize * (k - 1), path, 256, nheader, ptr)]
  /\ UNCHANGED <<ar, pos>>

NextSkeleton ==
  \/ Open
  \/ ExistsSkeleton
  \/ IsPath

SpecSkeleton == InitSkeleton /\ [][NextSkeleton]_vars

(* ---------------------------------------------------------------------- *)
(* What an archive holds, read off the blocks it was written from          *)
(* ---------------------------------------------------------------------- *)

IsHeader(b) == Len(b) > 1
BName(b) == b[1].bytes
BSize(b) == DigitsValue([i \in 1..Len(b[3].bytes) |-> b[3].bytes[i] - ZERO])
BType(b) == b[4].bytes[1]
BLink(b) == b[5].bytes
BMagic(b) == b[6].bytes
BVersion(b) == b[7].bytes
BChksum(b) == b[8].bytes

\* the checksum field a header with these fields must carry
GoodChksum(b) ==
  OctalDigits(SegSum(SubSeq(b, 1, 7)) + SegSum(SubSeq(b, 9, Len(b))) + 8 * SP, 6)
    \o <<NUL, SP>>

\* the code the documentation of check_archive gives a header: 0 when it
\* is valid, else the first failing check of magic, version, checksum
HeaderCode(b) ==
  IF BMagic(b) # Ustar THEN -1
  ELSE IF BVersion(b) # TVERSION THEN -2
  ELSE IF BChksum(b) # GoodChksum(b) THEN -3
  ELSE 0

\* the positions of the entry headers: the header blocks before the first
\* all-zero block
EntryIdx(a) ==
  {k \in 1..Len(a) :
     /\ IsHeader(a[k])
     /\ \A j \in 1..(k - 1) : a[j] # ZeroBlock}

WellFormed(a) == \A k \in EntryIdx(a) : HeaderCode(a[k]) = 0

SetMin(S) == CHOOSE k \in S : \A j \in S : k <= j

\* the first entry stored under a path, 0 when there is none
FirstIdx(a, path) ==
  LET S == {k \in EntryIdx(a) : BName(a[k]) = path}
  IN  IF S = {} THEN 0 ELSE SetMin(S)

Present(a, path) == FirstIdx(a, path) # 0
EntryAt(a, path) == a[FirstIdx(a, path)]

IsRegular(a, path) ==
  Present(a, path) /\ BType(EntryAt(a, path)) \in {REGTYPE, AREGTYPE}
IsDirectory(a, path) == Present(a, path) /\ BType(EntryAt(a, path)) = DIRTYPE
IsLink(a, path) == Present(a, path) /\ BType(EntryAt(a, path)) = SYMTYPE

\* the content of a regular file: the bytes of the block after its header
ContentOf(a, path) ==
  IF BSize(EntryAt(a, path)) = 0 THEN <<>>
  ELSE a[FirstIdx(a, path) + 1][1].bytes

(* ---------------------------------------------------------------------- *)
(* C1                                                                      *)
(* ---------------------------------------------------------------------- *)

CheckedFromStart == last.op = "check_archive" /\ last.pos0 = 0

\* C1: check_archive, called with the descriptor at offset 0 on an archive
\* of N well-formed entries ended by a terminator block or by the end of the
\* file, returns N; in particular 0 when the first block is the terminator.
C1_ReturnsEntryCount ==
  (CheckedFromStart /\ WellFormed(ar)) => last.ret = Cardinality(EntryIdx(ar))

\* what holds of C1: the count is returned whenever there is an entry, or
\* no block at all
C1_NonEmptyCount ==
  (CheckedFromStart /\ WellFormed(ar) /\ (EntryIdx(ar) # {} \/ ar = <<>>))
    => last.ret = Cardinality(EntryIdx(ar))

(* ---------------------------------------------------------------------- *)
(* C2                                                                      *)
(* ---------------------------------------------------------------------- *)

FirstBad(a) == SetMin({k \in EntryIdx(a) : HeaderCode(a[k]) # 0})

\* C2: check_archive reports the first malformed header of the archive with
\* the code of its first failing check, in the order magic (-1), version
\* (-2), checksum (-3).
C2_FirstFailingCheck ==
  (CheckedFromStart /\ ~WellFormed(ar))
    => last.ret = HeaderCode(ar[FirstBad(ar)])

\* what holds of C2: the code is the one of the first failing check unless
\* the magic field of the malformed header starts with a NUL
C2_NonEmptyMagic ==
  (CheckedFromStart /\ ~WellFormed(ar) /\ BMagic(ar[FirstBad(ar)])[1] # NUL)
    => last.ret = HeaderCode(ar[FirstBad(ar)])

(* ---------------------------------------------------------------------- *)
(* C3                                                                      *)
(* ---------------------------------------------------------------------- *)

\* C3: two consecutive calls exists(fd, p) on one descriptor, the first at
\* offset 0, return the same result.
C3_ExistsIdempotent ==
  (Returned("exists") /\ last.again /\ last.prev.pos0 = 0)
    => last.ret = last.prev.ret

(* ---------------------------------------------------------------------- *)
(* C4, C5                                                                  *)
(* ---------------------------------------------------------------------- *)

\* the second of two read_file calls on one descriptor, the first of them
\* made at offset 0 of the archive on a regular file
SecondRead ==
  /\ last.op = "read_file"
  /\ last.next
  /\ last.prev.pos0 = 0
  /\ IsRegular(ar, last.path)

SizeOf(a, path) == BSize(EntryAt(a, path))

\* C4: read_file(fd, path, 0, dest, len = size) on a regular file of length
\* size > 0 sets *len to size and returns 0, and a second call with
\* offset = size returns -2.
C4_FullReadThenOutOfRange ==
  (SecondRead /\ last.prev.offset = 0 /\ SizeOf(ar, last.path) > 0
     /\ last.prev.cap = SizeOf(ar, last.path))
    => /\ last.prev.len = SizeOf(ar, last.path)
       /\ last.prev.ret = 0
       /\ last.outcome = "returned"
       /\ last.ret = -2

\* the bytes of the file from offset on, at most n of them
Slice(a, path, offset, n) ==
  SubSeq(ContentOf(a, path), offset + 1, Min(offset + n, SizeOf(a, path)))

\* C5: a read_file call with a (non-empty) buffer smaller than the unread
\* content returns the length of the unread tail, and the follow-up call at
\* offset + bytes written returns the next bytes of the file.
C5_ChunksContinue ==
  (SecondRead /\ last.prev.cap > 0
     /\ last.prev.cap < SizeOf(ar, last.path) - last.prev.offset)
    => /\ last.prev.ret = SizeOf(ar, last.path) - last.prev.offset - last.prev.len
       /\ last.prev.ret > 0
       /\ last.outcome = "returned"
       /\ last.ret >= 0
       /\ last.prev.dest \o last.dest
            = Slice(ar, last.path, last.prev.offset, last.prev.len + last.cap)

(* ---------------------------------------------------------------------- *)
(* C6, C7                                                                  *)
(* ---------------------------------------------------------------------- *)

RECURSIVE ChainEnd(_, _, _)
\* the entry a path leads to through at most hops symlinks; <<>> when a
\* target is missing or the chain is longer
ChainEnd(a, path, hops) ==
  IF ~Present(a, path) THEN <<>>
  ELSE IF ~IsLink(a, path) THEN path
  ELSE IF hops = 0 THEN <<>>
  ELSE ChainEnd(a, BLink(EntryAt(a, path)), hops - 1)

RECURSIVE OnLinks(_, _, _)
\* the path and the next hops targets are all symlinks of the archive
OnLinks(a, path, hops) ==
  /\ IsLink(a, path)
  /\ hops > 0 => OnLinks(a, BLink(EntryAt(a, path)), hops - 1)

\* a symlink whose chain comes back to a symlink it went through: with n
\* entries, a chain of n hops without an end
Cyclic(a, path) == OnLinks(a, path, Len(a))

Target(a, path) == ChainEnd(a, path, Len(a))

FirstCallAtStart(op) == last.op = op /\ last.pos0 = 0

\* read_file through a symlink whose chain ends at a regular file
ReadsThroughLink ==
  /\ FirstCallAtStart("read_file")
  /\ ~last.next
  /\ IsLink(ar, last.path)
  /\ IsRegular(ar, Target(ar, last.path))

\* C6: with the descriptor at offset 0, read_file on a symlink whose chain
\* ends at a regular file c gives the result of read_file on c with the
\* same offset and buffer: same bytes, same *len, same return value.
C6_ReadThroughSymlink ==
  ReadsThroughLink =>
    LET r == read_file(ar, 0, Target(ar, last.path), last.offset, last.cap, {})
    IN  /\ last.outcome = "returned"
        /\ r.returns
        /\ last.ret = r.ret
        /\ last.len = r.len
        /\ last.dest = r.dest

\* the whole file c was read through a chain of two symlinks
C6_Witness ==
  /\ ReadsThroughLink
  /\ IsLink(ar, BLink(EntryAt(ar, last.path)))
  /\ last.outcome = "returned"
  /\ last.ret = 0
  /\ last.dest = ContentOf(ar, Target(ar, last.path))
  /\ last.dest # <<>>

\* C7: read_file and list return a failure on a self-referential symlink
\* and on a symlink cycle; they do not loop or recurse forever.
C7_CycleFails ==
  ((FirstCallAtStart("read_file") \/ FirstCallAtStart("list")) /\ Cyclic(ar, last.path))
    => /\ last.outcome = "returned"
       /\ last.ret <= 0

(* ---------------------------------------------------------------------- *)
(* C8, C9, C10                                                             *)
(* ---------------------------------------------------------------------- *)

\* name is stored directly under the directory path d: it starts with d,
\* and what follows d is not empty and has no slash before its last
\* character
IsChild(d, name) ==
  /\ Len(name) > Len(d)
  /\ SubSeq(name, 1, Len(d)) = d
  /\ \A i \in (Len(d) + 1)..(Len(name) - 1) : name[i] # SLASH

RECURSIVE ChildrenFrom(_, _, _)
\* the names of the direct children of d among the entries k.., in order
ChildrenFrom(a, d, k) ==
  IF k > Len(a) THEN <<>>
  ELSE IF k \in EntryIdx(a) /\ IsChild(d, BName(a[k]))
       THEN <<BName(a[k])>> \o ChildrenFrom(a, d, k + 1)
  ELSE ChildrenFrom(a, d, k + 1)

Children(a, d) == ChildrenFrom(a, d, 1)

ListsDirectory ==
  /\ FirstCallAtStart("list")
  /\ IsDirectory(ar, last.path)

\* C8: with the descriptor at offset 0, list on a directory d with a
\* capacity of at least the number of direct children writes exactly the
\* direct children of d, in archive order: never d itself, never an entry
\* deeper than one level.
C8_ListsDirectChildren ==
  (ListsDirectory /\ last.cap >= Len(Children(ar, last.path)))
    => /\ last.outcome = "returned"
       /\ last.entries = Children(ar, last.path)

\* the listing of the documentation: a file, a subdirectory, and a
\* grandchild that is left out
C8_Witness ==
  /\ ListsDirectory
  /\ last.outcome = "returned"
  /\ last.entries = <<nDA, nDB, nDC, nDE>>
  /\ Present(ar, nDCD)

\* C9: with the descriptor at offset 0, list on a symlink whose target is
\* a directory lists the children of that directory and returns non-zero.
C9_ListThroughSymlink ==
  (FirstCallAtStart("list") /\ IsLink(ar, last.path)
     /\ IsDirectory(ar, BLink(EntryAt(ar, last.path)))
     /\ Children(ar, BLink(EntryAt(ar, last.path))) # <<>>
     /\ last.cap > 0)
    => /\ last.outcome = "returned"
       /\ last.ret # 0

\* a directory with more direct children than the capacity passed
Truncated ==
  /\ ListsDirectory
  /\ Len(Children(ar, last.path)) > last.cap

\* C10: when the directory has more direct children than the capacity (of
\* one entry or more), list reports two values: the number of entries written and the total
\* number of matching entries.
C10_ReportsTotal ==
  (Truncated /\ last.cap > 0)
    => /\ last.outcome = "returned"
       /\ Len(last.entries) <= last.cap
       /\ {last.ret, last.no_entries} = {Len(last.entries), Len(Children(ar, last.path))}

\* C10 as amended: list then writes the first capacity children and
\* reports that one number twice, as its return value and in *no_entries.
C10_ReportsWritten ==
  Truncated
    => /\ last.outcome = "returned"
       /\ last.entries = SubSeq(Children(ar, last.path), 1, last.cap)
       /\ last.ret = last.cap
       /\ last.no_entries = last.cap

C10_Witness ==
  /\ Truncated
  /\ last.outcome = "returned"
  /\ last.cap = 2
  /\ Len(Children(ar, last.path)) = 4
  /\ last.ret = 2

(* ---------------------------------------------------------------------- *)
(* C11                                                                     *)
(* ---------------------------------------------------------------------- *)

\* C11: list, called with the descriptor at offset 0 and room for an entry
\* on a path that is not a symlink, returns zero exactly when the path is
\* not a directory of the archive: an existing directory, an empty one
\* included, gives a non-zero value.
C11_ZeroOnlyWithoutDirectory ==
  (FirstCallAtStart("list") /\ last.cap > 0 /\ ~IsLink(ar, last.path))
    => /\ last.outcome = "returned"
       /\ (last.ret = 0) <=> ~IsDirectory(ar, last.path)

(* ---------------------------------------------------------------------- *)
(* C12, C13                                                                *)
(* ---------------------------------------------------------------------- *)

\* a first read_file call, made at offset 0 of the archive
FirstRead == FirstCallAtStart("read_file") /\ ~last.next

\* C12: with the descriptor at offset 0, read_file on a regular entry of
\* length size, for an offset < size and a capacity cap, copies exactly
\* min(cap, size - offset) bytes, the content from offset on, sets *len to
\* that number and returns size - offset - *len.
C12_CopiesContent ==
  (FirstRead /\ IsRegular(ar, last.path) /\ last.offset < SizeOf(ar, last.path))
    => /\ last.outcome = "returned"
       /\ last.len = Min(last.cap, SizeOf(ar, last.path) - last.offset)
       /\ last.dest = Slice(ar, last.path, last.offset, last.cap)
       /\ last.ret = SizeOf(ar, last.path) - last.offset - last.len

\* a buffer larger than what is left of a file of typeflag '\0': the last
\* byte is copied, and no padding
C12_Witness ==
  /\ FirstRead
  /\ IsRegular(ar, last.path)
  /\ BType(EntryAt(ar, last.path)) = AREGTYPE
  /\ last.offset = 1
  /\ last.cap = 2
  /\ last.outcome = "returned"
  /\ last.len = 1
  /\ last.ret = 0
  /\ last.dest = <<97>>

\* C13: with the descriptor at offset 0, read_file on a path that is not on
\* a symlink cycle returns -2 when the path leads to a regular file and
\* offset >= size (offset 0 on an empty file included), and -1 when no
\* entry has the path or the entry it leads to is not a regular file.
C13_OutOfRangeAndNoFile ==
  (FirstRead /\ ~Cyclic(ar, last.path))
    => /\ last.outcome = "returned"
       /\ IF IsRegular(ar, Target(ar, last.path))
          THEN last.offset >= SizeOf(ar, Target(ar, last.path)) => last.ret = -2
          ELSE last.ret = -1

\* offset 0 on an empty file is out of range
C13_Witness ==
  /\ FirstRead
  /\ IsRegular(ar, last.path)
  /\ SizeOf(ar, last.path) = 0
  /\ last.offset = 0
  /\ last.outcome = "returned"
  /\ last.ret = -2

(* ---------------------------------------------------------------------- *)
(* C14                                                                     *)
(* ---------------------------------------------------------------------- *)

\* C14: whenever list returns, whatever its return value, *no_entries holds
\* the number of entries that list wrote into the entries array.
C14_NoEntriesIsWritten ==
  (last.op = "list" /\ last.outcome = "returned")
    => last.no_entries = Len(last.entries)

(* ---------------------------------------------------------------------- *)
(* C18                                                                     *)
(* ---------------------------------------------------------------------- *)

\* C18: check_archive takes a block for the end of the archive only if all
\* its bytes are zero: when the first block that is not a valid header has
\* some non-zero byte and a magic field other than "ustar\0" (a magic field
\* that starts with a NUL included), check_archive returns -1.
C18_TerminatorAllZero ==
  (CheckedFromStart /\ ~WellFormed(ar) /\ BMagic(ar[FirstBad(ar)]) # Ustar)
    => last.ret = -1

(* ---------------------------------------------------------------------- *)
(* C15, C17: src/unnamed/part_000                                          *)
(* ---------------------------------------------------------------------- *)

\* C15: check_archive of part_000 returns -2 when the first malformed
\* header has the magic "ustar\0" and a version other than "00".
C15_VersionCode ==
  (last.op = "check_archive" /\ ~WellFormed(ar)
     /\ BMagic(ar[FirstBad(ar)]) = Ustar /\ BVersion(ar[FirstBad(ar)]) # TVERSION)
    => last.ret = -2

\* the entry at path is of the kind the condition asks for
KindIs(a, path, cond) ==
  IF cond = "is_dir" THEN IsDirectory(a, path)
  ELSE IF cond = "is_file" THEN IsRegular(a, path)
  ELSE IsLink(a, path)

\* C17: is_dir, is_file and is_symlink of part_000, on an archive of
\* well-formed headers, decide on the first entry whose name is equal to
\* the path: the result is zero when no entry has that name, and the kind
\* of that entry otherwise.
C17_ExactName ==
  (last.op = "archive_search" /\ WellFormed(ar))
    => (last.ret # 0) <=> KindIs(ar, last.path, last.cond)

(* ---------------------------------------------------------------------- *)
(* C16, C20: src/skeleton/lib_tar.c                                        *)
(* ---------------------------------------------------------------------- *)

\* an entry of the archive has this full path
PresentFull(a, path) == \E k \in EntryIdx(a) : FullPath(a[k]) = path

\* C16: exists of src/skeleton/lib_tar.c, called on a freshly opened
\* archive, returns a non-zero value exactly when the path is the full path
\* of an entry, whatever the index of the entry.
C16_FindsEveryEntry ==
  (last.op = "exists" /\ last.pos0 = 0)
    => (last.ret # 0) <=> PresentFull(ar, last.path)

\* C20: is_path on a header with a non-empty name returns nheader when the
\* full path of the header is equal to path over its whole length, and -1
\* otherwise.
C20_ComparesWholePath ==
  last.op = "is_path"
    => last.ret = IF FullPath(ar[last.block]) = last.path THEN last.nheader ELSE -1

(* ---------------------------------------------------------------------- *)
(* C19                                                                     *)
(* ---------------------------------------------------------------------- *)

\* C19: exists, is_dir, is_file, is_symlink, list and read_file, called
\* with the descriptor at offset 0, find an entry by its full path only:
\* exists is non-zero exactly for the full paths of the entries (prefix,
\* "/", name for an entry with a prefix), and the others find no entry at a
\* path that is not the full path of one.
C19_FullPathIdentifies ==
  /\ (FirstCallAtStart("exists") /\ ~last.again)
       => (last.ret # 0) <=> PresentFull(ar, last.path)
  /\ (FirstCallAtStart("check_flag") /\ last.ret # 0) => PresentFull(ar, last.path)
  /\ (FirstCallAtStart("list") /\ last.outcome = "returned" /\ last.ret # 0)
       => PresentFull(ar, last.path)
  /\ (FirstRead /\ last.outcome = "returned" /\ last.ret >= 0)
       => PresentFull(ar, last.path)

(* ---------------------------------------------------------------------- *)
(* C21: src/skeleton/lib_tar.c and the caller's descriptor                 *)
(* ---------------------------------------------------------------------- *)

\* C21: after exists of src/skeleton/lib_tar.c has returned, the caller's
\* descriptor is still open, and a call on it does not fail for a closed
\* descriptor.
C21_DescriptorStaysOpen ==
  last.op = "exists" => (pos # Closed /\ last.ret # -1)

(* ---------------------------------------------------------------------- *)
(* C22: src/unnamed/part_000 and the offset a call leaves                  *)
(* ---------------------------------------------------------------------- *)

\* C22: check_archive, exists, is_dir, is_file and is_symlink of part_000
\* return, at whatever offset the calls before them left the descriptor,
\* the value of the same call on a descriptor at offset 0.
C22_RewindsFirst ==
  /\ last.op = "check_archive" => last.ret = check_archive_loop(ar, 0, 0).ret
  /\ last.op = "exists" => last.ret = exists_loop(ar, 0, last.path).ret
  /\ last.op = "archive_search"
       => last.ret = archive_search_loop(ar, 0, last.path, last.cond).ret

\* a call on a descriptor that an earlier call left past the first entry
\* finds the entry stored first
C22_Witness ==
  /\ last.op = "archive_search"
  /\ last.pos0 > HeaderSize
  /\ last.ret = 1
  /\ StrncmpEq(ar, 0, OffName, last.path, Len(last.path), 0)

(* ---------------------------------------------------------------------- *)
(* C23: malformed headers and the scans                                    *)
(* ---------------------------------------------------------------------- *)

\* the archive has a malformed header, and every entry named path is
\* stored after the first one
AfterMalformed(a, path) ==
  /\ ~WellFormed(a)
  /\ Present(a, path)
  /\ FirstIdx(a, path) > FirstBad(a)

\* C23: exists, is_dir, is_file, is_symlink, list and read_file, called
\* with the descriptor at offset 0, stop at the first header that fails
\* the check of magic, version and checksum: an entry stored after it is
\* not found, not listed and not read.
C23_StopsAtMalformed ==
  /\ (FirstCallAtStart("exists") /\ ~last.again /\ AfterMalformed(ar, last.path))
       => last.ret = 0
  /\ (FirstCallAtStart("check_flag") /\ AfterMalformed(ar, last.path))
       => last.ret = 0
  /\ (FirstCallAtStart("list") /\ last.outcome = "returned"
        /\ AfterMalformed(ar, last.path))
       => (last.ret = 0 /\ last.entries = <<>>)
  /\ (FirstRead /\ last.outcome = "returned" /\ AfterMalformed(ar, last.path))
       => (last.ret < 0 /\ last.dest = <<>>)

(* ---------------------------------------------------------------------- *)
(* C26: get_symlink                                                        *)
(* ---------------------------------------------------------------------- *)

\* C26: with the descriptor at offset 0, get_symlink on a symlink whose
\* chain ends at an entry that is no symlink returns the path of that
\* entry, and it returns NULL when the path is no entry of the archive.
C26_ReturnsChainEnd ==
  /\ (FirstCallAtStart("get_symlink") /\ IsLink(ar, last.path)
        /\ Target(ar, last.path) # <<>>)
       => /\ last.outcome = "returned"
          /\ ~last.null
          /\ last.val = Target(ar, last.path)
  /\ (FirstCallAtStart("get_symlink") /\ last.outcome = "returned"
        /\ ~Present(ar, last.path))
       => last.null

(* ---------------------------------------------------------------------- *)
(* C27: is_dir, is_file, is_symlink                                        *)
(* ---------------------------------------------------------------------- *)

\* the first entry named path is of the kind a typeflag stands for
KindFlag(a, path, typeflag) ==
  IF typeflag = DIRTYPE THEN IsDirectory(a, path)
  ELSE IF typeflag = REGTYPE THEN IsRegular(a, path)
  ELSE IsLink(a, path)

\* C27: with the descriptor at offset 0, is_dir, is_file and is_symlink
\* decide on the first entry whose name is equal to the path: each is
\* non-zero exactly when that entry is a directory, a regular file of
\* typeflag '0' or '\0', a symlink (whatever its target), and at most one
\* of the three is non-zero for a path.
C27_OneKind ==
  FirstCallAtStart("check_flag")
    => /\ (last.ret # 0) <=> KindFlag(ar, last.path, last.typeflag)
       /\ Cardinality({t \in {DIRTYPE, REGTYPE, SYMTYPE} :
                         check_flag(ar, 0, last.path, t).ret # 0}) <= 1

\* is_file on a regular file of typeflag '\0'
C27_Witness ==
  /\ FirstCallAtStart("check_flag")
  /\ last.typeflag = REGTYPE
  /\ Present(ar, last.path)
  /\ BType(EntryAt(ar, last.path)) = AREGTYPE
  /\ last.ret = 1

(* ---------------------------------------------------------------------- *)
(* C28: list and the capacity of the caller                                *)
(* ---------------------------------------------------------------------- *)

\* C28: list writes at most as many entries as *no_entries holds at the
\* call, leaves in *no_entries a value that is not larger, and writes no
\* slot at or after the index it leaves there.
C28_WithinCapacity ==
  (last.op = "list" /\ last.outcome = "returned")
    => /\ Len(last.entries) <= last.cap
       /\ last.no_entries <= last.cap
       /\ Len(last.entries) <= last.no_entries

\* a directory of more than one child listed into one slot
C28_Witness ==
  /\ Truncated
  /\ last.outcome = "returned"
  /\ last.cap = 1
  /\ Len(last.entries) = 1
  /\ last.no_entries = 1

(* ---------------------------------------------------------------------- *)
(* C24, C29: headers whose size field holds what tar would not write       *)
(* ---------------------------------------------------------------------- *)

\* the header b with the bytes of field in its size field, and the
\* checksum of the whole
WithSize(b, field) ==
  << b[1], b[2], Seg(OffSize, field) >> \o SubSeq(b, 4, 7)
    \o << Seg(OffChksum,
              OctalDigits(SegSum(<<b[1], b[2]>>) + SumSeq(field)
                            + SegSum(SubSeq(b, 4, 7)) + 8 * SP, 6)
                \o <<NUL, SP>>) >>

\* "-0000000001": the size field strtol reads as -1
MinusOne == <<45>> \o OctalDigits(1, 10)

\* directories and symlinks with a size of 5, 512 and 1024, a regular
\* file with a negative size, and two archives of sizes as tar writes them
ArchivesSizes ==
  << << WithSize(Dir(nD), OctalDigits(5, 11)), File(nDA, 0), File(nF, 0) >> \o Terminator,
     << WithSize(Sym(nS, nF), OctalDigits(512, 11)), File(nF, 2), Data(Content),
        File(nA, 0) >> \o Terminator,
     << File(nA, 0), WithSize(Dir(nD), OctalDigits(1024, 11)), File(nDA, 0), File(nDB, 0),
        File(nF, 0) >> \o Terminator,
     << File(nA, 0), WithSize(File(nF, 0), MinusOne), Data(Content) >> \o Terminator,
     << File(nF, 2), Data(Content), Sym(nA, nF) >> \o Terminator,
     TreeArchive >>

InitSizes ==
  /\ ar \in {ArchivesSizes[k] : k \in 1..Len(ArchivesSizes)}
  /\ pos = 0
  /\ last = [op |-> "open", outcome |-> "returned"]

SpecSizes == InitSizes /\ [][Next]_vars

\* a directory or a symlink of the archive has a size field other than 0
SizedNonRegular(a) ==
  \E k \in EntryIdx(a) :
    /\ BType(a[k]) \notin {REGTYPE, AREGTYPE}
    /\ a[k][3].bytes # OctalDigits(0, 11)

\* C24: a scan steps over no content after a header that is no regular
\* file, whatever its size field holds: with the descriptor at offset 0,
\* exists, is_dir, is_file and is_symlink find the entries stored after a
\* directory or a symlink with a size other than 0.
C24_NoContentAfterNonRegular ==
  /\ (FirstCallAtStart("exists") /\ ~last.again /\ SizedNonRegular(ar))
       => (last.ret # 0) <=> Present(ar, last.path)
  /\ (FirstCallAtStart("check_flag") /\ SizedNonRegular(ar))
       => (last.ret # 0) <=> KindFlag(ar, last.path, last.typeflag)

\* C29: read_file that returns -1 or -2 has written nothing: no byte of
\* dest, and *len holds the value it had at the call.
C29_ErrorWritesNothing ==
  (last.op = "read_file" /\ last.outcome = "returned" /\ last.ret \in {-1, -2})
    => (last.dest = <<>> /\ last.len = last.cap)

(* ---------------------------------------------------------------------- *)
(* C25, C30: aligned_size on every size field, and the loops of            *)
(* check_archive, exists and check_flag one iteration at a time.  The      *)
(* offsets of this specification are counted in blocks of 512 bytes: a     *)
(* scan that starts at 0 only reaches multiples of 512, up to 2^32.        *)
(* ---------------------------------------------------------------------- *)

\* the size field of one digit d, seven digits x and the three of low
SizeField(d, x, low) == <<ZERO + d>> \o [i \in 1..7 |-> ZERO + x] \o low

\* "-0000001000": the size field strtol reads as -512
MinusBlock == <<45>> \o OctalDigits(HeaderSize, 10)

\* sizes from 0 to 8^11 - 1, on both sides of 2^31 and 2^32 and of the
\* multiples of 512, and two negative sizes
SizeFields ==
  {SizeField(d, x, low) : d \in 0..7, x \in {0, 7},
                          low \in {<<48, 48, 48>>, <<48, 48, 49>>, <<55, 55, 55>>}}
    \cup {MinusOne, MinusBlock}

InitScan ==
  /\ ar \in {<< WithSize(File(nA, 0), field), File(nB, 0) >> \o Terminator :
               field \in SizeFields}
  /\ pos = 0
  /\ last = [op |-> "open", outcome |-> "returned"]

\* aligned_size on the header stored in block k
AlignedSize ==
  /\ Fresh
  /\ \E k \in 1..Len(ar) :
       /\ Len(ar[k]) > 1
       /\ last' = [op |-> "aligned_size", outcome |-> "returned", block |-> k,
                   blocks |-> ToLong(aligned_blocks(ar, HeaderSize * (k - 1)))]
  /\ UNCHANGED <<ar, pos>>

\* the call of a scan: iters counts the headers stepped over, which is
\* nheader in check_archive; from is the offset of the header read last
ScanStart ==
  /\ Fresh
  /\ \E op \in {"check_archive", "exists", "check_flag"}, path \in {nB, nX} :
       last' = [op |-> op, outcome |-> "running", path |-> path, typeflag |-> REGTYPE,
                iters |-> 0, from |-> pos, ret |-> 0]
  /\ UNCHANGED <<ar, pos>>

\* what an iteration does with the header it has read: return ret, or go
\* on to the lseek
Step(returns, ret) == [returns |-> returns, ret |-> ret]

\* check_archive, lines 26-29
check_archive_step(valid_arch) == Step(valid_arch # 0, valid_arch)

\* exists, lines 127-132
exists_step(a, p, path) ==
  IF HB(a, p, OffName) = NUL THEN Step(TRUE, 0)
  ELSE IF StrcmpEq(a, p, OffName, path) THEN Step(TRUE, 1)
  ELSE Step(FALSE, 0)

\* check_flag, lines 162-174
check_flag_step(a, p, path, typeflag) ==
  IF HB(a, p, OffName) = NUL THEN Step(TRUE, 0)
  ELSE IF StrcmpEq(a, p, OffName, path)
       THEN Step(TRUE, flag_matches(HB(a, p, OffTypeflag), typeflag))
  ELSE Step(FALSE, 0)

scan_step(call, a, p) ==
  IF call.op = "check_archive" THEN check_archive_step(valid_archive(a, p, call.iters))
  ELSE IF call.op = "exists" THEN exists_step(a, p, call.path)
  ELSE check_flag_step(a, p, call.path, call.typeflag)

\* the call returns ret and leaves the descriptor at block b
ScanReturns(ret, b) ==
  /\ pos' = b
  /\ last' = [last EXCEPT !.outcome = "returned", !.ret = ret]

\* lseek(tar_fd, aligned_size(header), SEEK_CUR) with the descriptor at
\* block b: an offset before the start of the file is refused
ScanSeeks(b, n) ==
  IF b + n < 0 THEN ScanReturns(-3, b)
  ELSE /\ pos' = b + n
       /\ last' = [last EXCEPT !.iters = @ + 1, !.from = pos]

ScanHeader(s, n) ==
  IF s.returns THEN ScanReturns(s.ret, pos + 1) ELSE ScanSeeks(pos + 1, n)

\* one pass through the while loop: the read of its condition, then its
\* body, or the lines after the loop when the read delivers no header
ScanIterate ==
  /\ last.outcome = "running"
  /\ last.iters < MaxIters
  /\ IF pos >= Len(ar)
     THEN ScanReturns(IF last.op = "check_archive" THEN last.iters ELSE 0, 0)
     ELSE ScanHeader(scan_step(last, ar, HeaderSize * pos),
                     ToLong(aligned_blocks(ar, HeaderSize * pos)))
  /\ UNCHANGED ar

NextScan ==
  \/ Open
  \/ AlignedSize
  \/ ScanStart
  \/ ScanIterate

SpecScan == InitScan /\ [][NextScan]_vars

\* 8 * v + d for a size v = 512 * q + r of any width
WideStep(v, d) ==
  [q |-> 8 * v.q + ((8 * v.r + d) \div HeaderSize), r |-> (8 * v.r + d) % HeaderSize]

RECURSIVE WideValue(_)
\* the number the octal digits ds stand for
WideValue(ds) ==
  IF ds = <<>> THEN [q |-> 0, r |-> 0]
  ELSE WideStep(WideValue(SubSeq(ds, 1, Len(ds) - 1)), ds[Len(ds)] - ZERO)

\* the least multiple of 512 that is not below the size, in blocks
CeilBlocks(size) == IF size.r = 0 THEN size.q ELSE size.q + 1

\* the size field of eleven octal digits
Digits11(field) == Len(field) = 11 /\ \A i \in 1..11 : IsOctal(field[i])

\* C25: for a size field of eleven octal digits, aligned_size returns the
\* least multiple of 512 that is not below the size the digits stand for.
C25_LeastMultiple ==
  (last.op = "aligned_size" /\ Digits11(ar[last.block][3].bytes))
    => last.blocks = CeilBlocks(WideValue(ar[last.block][3].bytes))

\* the scans of check_archive, exists and check_flag
Scanning == last.op \in {"check_archive", "exists", "check_flag"}

\* C30: every iteration of check_archive, exists and check_flag that goes
\* on leaves the descriptor at least one block after the header it read,
\* whatever the size field holds, and a call steps over no more headers
\* than the archive has blocks.
C30_MovesForward ==
  /\ (Scanning /\ last.outcome = "running" /\ last.iters > 0) => pos >= last.from + 1
  /\ Scanning => (last.iters <= Len(ar) /\ last.iters < MaxIters)

\* the header with the size -512 is stepped over: the descriptor is far
\* after the end of the archive
C30_Witness ==
  /\ Scanning
  /\ last.outcome = "running"
  /\ last.iters = 1
  /\ ar[1][3].bytes = MinusBlock
  /\ pos > Len(ar)

====
